---- MODULE Spec2Model ----
(***************************************************************************)
(* Protocol dispatcher, token cache and pull-request workflow of the Gitee *)
(* pull-request MCP server.  Two servers share the logic and both are      *)
(* modelled, selected by the variable "variant":                           *)
(*   "final" : src/src/server-final.js (single instance, global token)     *)
(*   "multi" : src/start-server.js     (MULTI_INSTANCE, per-key tokens)    *)
(* A task is one invocation of the stdin 'data' callback.  JavaScript runs *)
(* each callback to its next suspension (an await on network I/O), so an   *)
(* action is one event-loop turn: the arrival of a record, of an OAuth     *)
(* response or of a REST response, followed by everything the code does    *)
(* until it suspends again or finishes the request.                        *)
(* Time is counted in minutes (the code counts milliseconds).              *)
(***************************************************************************)
EXTENDS Integers, Sequences, FiniteSets, TLC

VARIABLES variant, config, env, now, tokenCache, operationLogs, task,
          exchanges, handled, alive, exitTimer, initialized, logDir, sup

vars == <<variant, config, env, now, tokenCache, operationLogs, task,
          exchanges, handled, alive, exitTimer, initialized, logDir, sup>>

(* the variables of the server process *)
serverVars == <<variant, config, env, now, tokenCache, operationLogs, task,
                exchanges, handled, alive, exitTimer, initialized, logDir>>

(* ----------------------------- bounds ---------------------------------- *)
NumTasks == 2
MaxNow == 2
MaxTokenCalls == 2
MaxRecords == 1
MaxLogRecords == 2
LogSlack == 2
MaxChunk == 2
MaxChunkRecords == 2
MaxLen == 3
MaxLabels == 2
MaxWindow == 2
MaxSignals == 2

Tasks == 1..NumTasks

(* ------------------------- program constants --------------------------- *)
MAX_LOGS == 1000
BufferWindow == 5
DefaultLifetime == 60
MinLabelLength == 2
MaxLabelLength == 20
DefaultLimit == 50
MinLimit == 1
MaxLimit == 1000
MinOffset == 0
maxRestarts == 10

Variants == {"final", "multi"}
RepoKeys == {"a", "b"}
Flags == [AUTO_REVIEW : BOOLEAN, AUTO_TEST : BOOLEAN, AUTO_MERGE : BOOLEAN]

(* expires_in of a token response, in minutes; 0 stands for a response     *)
(* that omits it                                                           *)
Lifetimes == {0, 5, 7}

NoToken == [k |-> "-", n |-> 0]
NoEntry == [present |-> FALSE, token |-> NoToken, expiresAt |-> 0]
NoErr == [statusCode |-> 0, error |-> "null"]
NoResp == [kind |-> "none", code |-> 0, id |-> "null", arg |-> "-"]
NoTool == [success |-> FALSE, what |-> "-", auto_review |-> "absent",
           auto_test |-> "absent", auto_merge |-> "absent", statusCode |-> 0,
           total |-> 0, logs |-> <<>>]
(* an optional argument of a tool call: left out, a number, or a value of  *)
(* another type (string, boolean, null, object).  A number is kept as its  *)
(* double, so that n + 1/2 is a value too.                                 *)
Absent == [kind |-> "absent", twice |-> 0]
NoReq == [shape |-> "-", method |-> "-", hasId |-> FALSE, name |-> "-",
          repo |-> "-", title |-> "-", prefix |-> "none",
          limit |-> Absent, offset |-> Absent, args |-> "-"]
NoOAuth == [kind |-> "-", token |-> NoToken, lifetime |-> 0, statusCode |-> 0]

(* Strings of the configuration are sequences of characters; "branch"     *)
(* stands for that word in any letter case.                                *)
(* a field of the create request body: left out, or sent with a value      *)
Omitted == [sent |-> FALSE, value |-> <<>>]
NoBody == [head |-> <<>>, base |-> <<>>, assignees |-> Omitted,
           testers |-> Omitted, labels |-> Omitted]

(* head, base, assignees, testers and labels of an instance *)
DefaultEnv == [HEAD_RAW |-> <<"d">>, BASE_RAW |-> <<"m">>, ASSIGNEES |-> <<>>,
               TESTERS |-> <<>>, LABELS_ENV |-> <<>>]

IdleTask == [pc |-> "idle", rid |-> 0, req |-> NoReq, lines |-> <<>>, idx |-> 0,
             count |-> 0,
             listed |-> {}, body |-> NoBody, display |-> <<>>,
             tool |-> "-", key |-> "-",
             step |-> "-", tcall |-> 0, token |-> NoToken,
             created |-> "-", review |-> "none", test |-> "none",
             merge |-> "none", sent |-> <<>>, tried |-> <<>>,
             logged |-> 0, exch |-> 0, xid |-> 0, hits |-> 0, err |-> NoErr,
             oauth |-> NoOAuth, resp |-> NoResp, toolResult |-> NoTool]

(* The process that starts the server and watches it: the managed starter  *)
(* (src/start-server.js) or the CLI wrapper; "none" when the server runs   *)
(* on its own.  children are the server processes started so far, the last *)
(* one being the one the variable server refers to.                        *)
NoSup == [kind |-> "none", alive |-> FALSE, exitCode |-> "none",
          restartCount |-> 0, children |-> <<>>, restartTimers |-> 0,
          shutdownTimeouts |-> 0, latestArmed |-> FALSE,
          exitTimer |-> "none", signals |-> 0]

(* ------------------------------ requests ------------------------------- *)
SimpleMethods == {"initialize", "tools/list", "prompts/list", "prompts/call",
                  "resources/list", "resources/read", "logging/list",
                  "logging/read", "roots/list", "roots/read", "ping",
                  "shutdown", "notifications/initialized",
                  "notifications/exit", "bogus/method",
                  "Server not initialized", "prompts/get"}

(* a record that is JSON but not an object carries no id *)
Malformed ==
  [shape : {"badVersion", "noMethod"}, method : {"-"}, hasId : BOOLEAN,
   name : {"-"}, repo : {"-"}, title : {"-"}, prefix : {"none"},
   limit : {Absent}, offset : {Absent},
   args : {"-"}]
  \cup [shape : {"notObject"}, method : {"-"}, hasId : {FALSE},
        name : {"-"}, repo : {"-"}, title : {"-"}, prefix : {"none"},
   limit : {Absent}, offset : {Absent},
   args : {"-"}]

SimpleRequests == [shape : {"ok"}, method : SimpleMethods, hasId : BOOLEAN,
                   name : {"-"}, repo : {"-"}, title : {"-"},
                   prefix : {"none"},
   limit : {Absent}, offset : {Absent},
   args : {"-"}]

(* title: absent, not a string, only whitespace, or a usable string *)
PrRequests == [shape : {"ok"}, method : {"tools/call"}, hasId : {TRUE},
               name : {"pr"}, repo : {"none", "", "a", "zz"},
               title : {"missing", "number", "blank", "ok"},
               prefix : {"none"},
   limit : {Absent}, offset : {Absent},
   args : {"-"}]

TokenRequests == [shape : {"ok"}, method : {"tools/call"}, hasId : {TRUE},
                  name : {"token"}, repo : {"none", "", "a", "b", "zz"},
                  title : {"-"}, prefix : {"none"},
   limit : {Absent}, offset : {Absent},
   args : {"-"}]

(* the token calls of the concurrent specification *)
ConcurrentTokenRequests == {r \in TokenRequests : r.repo \in RepoKeys}

OtherToolRequests == [shape : {"ok"}, method : {"tools/call"},
                      hasId : BOOLEAN,
                      name : {"none", "logs", "set_log_dir", "bogus",
                              "Unknown method"},
                      repo : {"none"}, title : {"-"}, prefix : {"none"},
   limit : {Absent}, offset : {Absent},
   args : {"-"}]

(* tool calls whose name carries a prefix: the server's own one (REPO_NAME *)
(* in the single-instance server, TOOL_PREFIX in the multi-instance one)   *)
(* or a foreign one                                                        *)
PrefixedToolRequests ==
  [shape : {"ok"}, method : {"tools/call"}, hasId : {TRUE},
   name : {"pr", "token", "logs", "set_log_dir", "bogus"},
   repo : {"a"}, title : {"ok"}, prefix : {"own", "other"},
   limit : {Absent}, offset : {Absent},
   args : {"-"}]

(* tool calls that name a member of the server object which is not a tool: *)
(* a method of the class, an inherited method, a data property.  The       *)
(* arguments are an empty object or a shutdown request.                    *)
MemberNames == {"handleRequest", "toString", "formatBranchName", "name",
                "initialized"}
MemberToolRequests ==
  [shape : {"ok"}, method : {"tools/call"}, hasId : {TRUE},
   name : MemberNames \cup {"logs", "bogus"},
   repo : {"none"}, title : {"-"}, prefix : {"none", "own"},
   limit : {Absent}, offset : {Absent}, args : {"empty", "shutdown"}]

(* logs calls: limit and offset left out, of another type than number, or  *)
(* numbers around the limits the tool checks                               *)
Num(n) == [kind |-> "number", twice |-> 2 * n]
Half(n) == [kind |-> "number", twice |-> 2 * n + 1]
Other == [kind |-> "other", twice |-> 0]
LimitValues ==
  {Absent, Other}
  \cup {Num(n) : n \in (MinLimit - 2)..(MinLimit + MaxWindow)}
  \cup {Half(n) : n \in (MinLimit - 1)..MinLimit}
  \cup {Num(n) : n \in {DefaultLimit, MaxLimit - 1, MaxLimit, MaxLimit + 1}}
  \cup {Half(MaxLimit)}
OffsetValues ==
  {Absent, Other}
  \cup {Num(n) : n \in (MinOffset - 1)..(MinOffset + MaxWindow)}
  \cup {Half(n) : n \in (MinOffset - 1)..MinOffset}
  \cup {Num(n) : n \in {MAX_LOGS - 1, MAX_LOGS, MAX_LOGS + 1}}

(* every limit with a usable offset and every offset with a usable limit *)
LogsRequests ==
  [shape : {"ok"}, method : {"tools/call"}, hasId : {TRUE},
   name : {"logs"}, repo : {"none"}, title : {"-"}, prefix : {"none"},
   limit : LimitValues, offset : {Absent, Num(MinOffset + 1), Half(MinOffset)},
   args : {"-"}]
  \cup
  [shape : {"ok"}, method : {"tools/call"}, hasId : {TRUE},
   name : {"logs"}, repo : {"none"}, title : {"-"}, prefix : {"none"},
   limit : {Absent, Num(MinLimit)}, offset : OffsetValues, args : {"-"}]

Requests == Malformed \cup SimpleRequests \cup PrRequests
              \cup TokenRequests \cup OtherToolRequests

(* ------------------------- upstream responses -------------------------- *)
(* token endpoint: 2xx with or without access_token, non-2xx, a body that  *)
(* is not JSON, network error                                              *)
OAuthOutcomes ==
  [kind : {"ok"}, hasToken : BOOLEAN, lifetime : Lifetimes, statusCode : {200}]
  \cup [kind : {"non2xx"}, hasToken : {FALSE}, lifetime : {0}, statusCode : {401}]
  \cup [kind : {"unparsable"}, hasToken : {FALSE}, lifetime : {0}, statusCode : {200}]
  \cup [kind : {"neterr"}, hasToken : {FALSE}, lifetime : {0}, statusCode : {0}]

(* the token responses drawn where records are handled one at a time      *)
SeqOAuthOutcomes ==
  {o \in OAuthOutcomes :
     \/ o.kind = "non2xx"
     \/ o.kind = "ok" /\ o.lifetime = 5
     \/ o.kind = "ok" /\ o.lifetime = 7 /\ o.hasToken}

(* REST endpoints.  "fail": non-2xx or network error.  The others are 2xx: *)
(* "empty" an empty body, "text" a body that is not JSON, "nonum" a JSON   *)
(* object without a truthy number, "strnum" a truthy number that is not of *)
(* type number, "num" a numeric PR number.                                 *)
CreateOutcomes == {"fail", "empty", "text", "nonum", "strnum", "num"}
StepOutcomes == {"fail", "empty", "json"}

StepOrder == <<"create", "review", "test", "merge">>

(* ------------------------- pure helpers -------------------------------- *)
(* The mutable program state an event-loop turn works on, as one record.   *)
Cur == [variant |-> variant, config |-> config, env |-> env, now |-> now,
        tokenCache |-> tokenCache, operationLogs |-> operationLogs,
        task |-> task, exchanges |-> exchanges, alive |-> alive,
        exitTimer |-> exitTimer, initialized |-> initialized,
        logDir |-> logDir]

Commit(s) ==
  /\ tokenCache' = s.tokenCache
  /\ operationLogs' = s.operationLogs
  /\ task' = s.task
  /\ exchanges' = s.exchanges
  /\ alive' = s.alive
  /\ exitTimer' = s.exitTimer
  /\ initialized' = s.initialized
  /\ logDir' = s.logDir
  /\ UNCHANGED <<variant, config, env, sup>>

(* The log directory: not configured (multi-instance server without        *)
(* LOG_DIR), given by the environment and usable or not, or set with       *)
(* set_log_dir.  getLogConfig, ensureLogDir and appendFileSync succeed     *)
(* together only in a usable directory.                                    *)
LogDirs(v) ==
  IF v = "final" THEN {"env_ok", "env_bad"}
  ELSE {"unset", "env_ok", "env_bad"}
Writable(dir) == dir \in {"env_ok", "custom_ok"}

(* variant of AppendLogLine: a failed write takes the entry out of the     *)
(* buffer again                                                            *)
AppendLogLineOrUndo(after, before) ==
  IF Writable(after.logDir)
    THEN [after EXCEPT !.operationLogs[1].written = TRUE]
    ELSE before

(* try { ensureLogDir(); appendFileSync(fullPath, logLine) } catch {}:     *)
(* after is the state with the entry in the buffer, before the one without *)
AppendLogLine(after, before) ==
  IF Writable(after.logDir)
    THEN [after EXCEPT !.operationLogs[1].written = TRUE]
    ELSE after

(* variant of LogRequest: the log is cut one entry short of its capacity *)
LogRequestCutsShort(s, p, method, error) ==
  LET l == <<[method |-> method, error |-> error, written |-> FALSE]>>
             \o s.operationLogs
  IN AppendLogLine(
       [s EXCEPT !.operationLogs = IF Len(l) > MAX_LOGS
                                     THEN SubSeq(l, 1, MAX_LOGS - 1) ELSE l,
                 !.task[p].logged = @ + 1], s)

(* operationLogs.unshift(entry); splice(MAX_LOGS); then the log file *)
LogRequest(s, p, method, error) ==
  LET l == <<[method |-> method, error |-> error, written |-> FALSE]>>
             \o s.operationLogs
  IN AppendLogLine(
       [s EXCEPT !.operationLogs = IF Len(l) > MAX_LOGS
                                     THEN SubSeq(l, 1, MAX_LOGS) ELSE l,
                 !.task[p].logged = @ + 1], s)

(* variant of CacheValid: the buffer taken in seconds instead of minutes *)
CacheValidBufferInSeconds(v, cache, k, t) ==
  IF v = "final"
    THEN cache[k].token # NoToken
         /\ cache[k].expiresAt > t + BufferWindow * 60
    ELSE cache[k].present /\ cache[k].expiresAt > t + BufferWindow * 60

(* cached token still usable at time t *)
CacheValid(v, cache, k, t) ==
  IF v = "final"
    THEN cache[k].token # NoToken /\ cache[k].expiresAt > t + BufferWindow
    ELSE cache[k].present /\ cache[k].expiresAt > t + BufferWindow

(* err.message.includes(text), for a message made of a fixed text msg and  *)
(* an interpolated value arg ("-" when the message has none)               *)
Includes(msg, arg, text) == msg = text \/ arg = text

(* the error code the catch block of handleRequest derives from a message  *)
ErrorCode(msg, arg) ==
  IF Includes(msg, arg, "Server not initialized") THEN 0 - 32002
  ELSE IF Includes(msg, arg, "Unknown method") THEN 0 - 32601
  ELSE IF Includes(msg, arg, "Unsupported JSON-RPC version") THEN 0 - 32600
  ELSE 0 - 32603

(* variant of IsNotification: only notifications/exit is a notification *)
IsNotificationExitOnly(m) == m = "notifications/exit"

(* the two methods that never get a response envelope *)
IsNotification(m) == m \in {"notifications/initialized", "notifications/exit"}

(* handleRequest: finally-block log and the response of a normal return   *)
ReturnResult(s, p) ==
  LET r == s.task[p].req
      s1 == LogRequest(s, p, r.method, "null")
  IN [s1 EXCEPT !.task[p].pc = "done",
                !.task[p].resp =
                   IF IsNotification(r.method) THEN NoResp
                   ELSE [kind |-> "result", code |-> 0,
                         id |-> IF r.hasId THEN "id" ELSE "null",
                         arg |-> "-"]]

(* handleRequest: catch block.  method and id are still null when the     *)
(* error was thrown before they were read from the request.               *)
ReturnError(s, p, msg, arg) ==
  LET r == s.task[p].req
      early == r.shape \in {"notObject", "badVersion"}
      m == IF early \/ r.shape = "noMethod" THEN "null" ELSE r.method
      s1 == LogRequest(s, p, m, msg)
  IN [s1 EXCEPT !.task[p].pc = "done",
                !.task[p].resp =
                   IF IsNotification(m) THEN NoResp
                   ELSE [kind |-> "error", code |-> ErrorCode(msg, arg),
                         id |-> IF r.hasId /\ ~early THEN "id" ELSE "null",
                         arg |-> arg]]

(* token tool, after getAccessToken rejected (or token.substring threw)   *)
TokenFail(s, p, err) ==
  LET s1 == LogRequest(s, p, "token", err.error)
  IN ReturnError([s1 EXCEPT !.task[p].err = err], p,
                 "Failed to get access token", err.error)

(* token tool, after getAccessToken resolved with tok *)
TokenOk(s, p, tok) ==
  IF tok = NoToken
    THEN TokenFail(s, p, [statusCode |-> 0, error |-> "TypeError"])
    ELSE LET s1 == LogRequest(s, p, "token", "null")
         IN ReturnResult([s1 EXCEPT !.task[p].token = tok,
                                    !.task[p].toolResult =
                                       [NoTool EXCEPT !.success = TRUE,
                                                      !.what = "token"]], p)

(* makeGiteeRequest after the token is there: the REST request goes out   *)
SendHttp(s, p, step, tok) ==
  [s EXCEPT !.task[p].pc = "httpWait", !.task[p].step = step,
            !.task[p].token = tok,
            !.task[p].sent = Append(@, step)]

(* getAccessToken up to its first suspension: answer from the cache or    *)
(* start a password-grant exchange                                        *)
GetAccessToken(s, p, k, step) ==
  IF CacheValid(s.variant, s.tokenCache, k, s.now)
    THEN LET s1 == [s EXCEPT !.task[p].hits = @ + 1]
         IN IF step = "token" THEN TokenOk(s1, p, s.tokenCache[k].token)
            ELSE SendHttp(s1, p, step, s.tokenCache[k].token)
    ELSE [s EXCEPT !.exchanges[k] = @ + 1,
                   !.task[p].pc = "oauthWait",
                   !.task[p].step = step,
                   !.task[p].tcall = s.now,
                   !.task[p].xid = s.exchanges[k] + 1,
                   !.task[p].exch = @ + 1]

(* ------------------------ create request body ------------------------- *)
RECURSIVE TrimStart(_)
TrimStart(str) ==
  IF str # <<>> /\ Head(str) = " " THEN TrimStart(Tail(str)) ELSE str

RECURSIVE TrimEnd(_)
TrimEnd(str) ==
  IF str # <<>> /\ str[Len(str)] = " "
    THEN TrimEnd(SubSeq(str, 1, Len(str) - 1)) ELSE str

(* String.prototype.trim *)
Trim(str) == TrimEnd(TrimStart(str))

RECURSIVE SplitAcc(_, _)
SplitAcc(str, cur) ==
  IF str = <<>> THEN <<cur>>
  ELSE IF Head(str) = "," THEN <<cur>> \o SplitAcc(Tail(str), <<>>)
  ELSE SplitAcc(Tail(str), Append(cur, Head(str)))

(* str.split(',') *)
Split(str) == SplitAcc(str, <<>>)

(* /^branch\s*\([^)]+\)$/i.test(t) *)
IsDisplayForm(t) ==
  /\ Len(t) > 0
  /\ t[1] = "branch"
  /\ t[Len(t)] = ")"
  /\ \E i \in 2..(Len(t) - 2) :
       /\ t[i] = "("
       /\ \A j \in 2..(i - 1) : t[j] = " "
       /\ \A j \in (i + 1)..(Len(t) - 1) : t[j] # ")"

(* formatBranchName *)
FormatBranchName(branchName) ==
  IF branchName = <<>> THEN branchName
  ELSE LET trimmed == Trim(branchName)
       IN IF IsDisplayForm(trimmed) THEN trimmed
          ELSE <<"branch", " ", "(">> \o trimmed \o <<")">>

(* str.split(',').map(s => s.trim()).filter(s => s !== '') *)
NameList(str) ==
  LET parts == Split(str)
      NonEmpty(x) == x # <<>>
  IN SelectSeq([i \in 1..Len(parts) |-> Trim(parts[i])], NonEmpty)

(* the assignees and testers fields *)
OptionalList(str) ==
  IF str # <<>> /\ Trim(str) # <<>>
    THEN [sent |-> TRUE, value |-> NameList(str)]
    ELSE Omitted

(* /^[a-zA-Z0-9_\u4e00-\u9fa5]+$/ *)
LabelChars == {"a", "Z", "9", "_", "cjk"}

(* variant of ValidLabel: the length of a label is not checked *)
ValidLabelAnyLength(label) ==
  \A i \in 1..Len(label) : label[i] \in LabelChars

(* the two checks a label must pass *)
ValidLabel(label) ==
  /\ Len(label) >= MinLabelLength
  /\ Len(label) <= MaxLabelLength
  /\ \A i \in 1..Len(label) : label[i] \in LabelChars

(* the labels field *)
Labels(str) ==
  IF str # <<>> /\ Trim(str) # <<>>
    THEN LET validLabels == SelectSeq(NameList(str), ValidLabel)
         IN IF Len(validLabels) > 0
              THEN [sent |-> TRUE, value |-> validLabels]
              ELSE Omitted
    ELSE Omitted

(* variant of RequestBody: the display form of the branches is sent *)
RequestBodyDisplayForm(e) ==
  [head |-> FormatBranchName(e.HEAD_RAW),
   base |-> FormatBranchName(e.BASE_RAW),
   assignees |-> OptionalList(e.ASSIGNEES),
   testers |-> OptionalList(e.TESTERS),
   labels |-> Labels(e.LABELS_ENV)]

(* requestBody of the create request *)
RequestBody(e) ==
  [head |-> e.HEAD_RAW,
   base |-> e.BASE_RAW,
   assignees |-> OptionalList(e.ASSIGNEES),
   testers |-> OptionalList(e.TESTERS),
   labels |-> Labels(e.LABELS_ENV)]

(* ---------------------------- pr workflow ------------------------------ *)
Resolved(x) == x \in {"data", "nodata"}

(* variant of HasNumber: only result.data is looked at *)
HasNumberAnyData(created) == created \in {"num", "strnum", "nonum", "text"}

(* result.data && result.data.number *)
HasNumber(created) == created \in {"num", "strnum"}

(* typeof prNumber === 'number', checked by the single-instance server     *)
NumberTypeOk(v, created) == v = "multi" \/ created = "num"

LogName(step) == IF step = "create" THEN "pr" ELSE "auto_" \o step

SetStep(t, step, val) ==
  IF step = "review" THEN [t EXCEPT !.review = val]
  ELSE IF step = "test" THEN [t EXCEPT !.test = val]
  ELSE IF step = "merge" THEN [t EXCEPT !.merge = val]
  ELSE [t EXCEPT !.created = val]

(* variant of PrCatch: the failure is thrown on to handleRequest *)
PrCatchRethrows(s, p, err) ==
  LET s1 == LogRequest(s, p, "pr", err.error)
  IN ReturnError([s1 EXCEPT !.task[p].err = err], p,
                 "Gitee Pull Request creation failed", err.error)

(* catch block of pr: a structured failure is returned, not thrown *)
PrCatch(s, p, err) ==
  LET s1 == LogRequest(s, p, "pr", err.error)
  IN ReturnResult([s1 EXCEPT !.task[p].err = err,
                             !.task[p].toolResult =
                               [NoTool EXCEPT !.what = "pr",
                                              !.statusCode = err.statusCode]],
                  p)

(* variant of Sub: a step that failed is reported as well *)
SubReportsFailed(v, x) == IF v = "final" /\ x # "none" THEN x ELSE "absent"

(* if (reviewResult) response.auto_review = {..., review: reviewResult.data} *)
Sub(v, x) == IF v = "final" /\ Resolved(x) THEN x ELSE "absent"

(* the success response of pr;  result.data.html_url throws on null data   *)
PrReturn(s, p) ==
  LET v == s.variant
      t == s.task[p]
      s1 == IF v = "multi" THEN LogRequest(s, p, "pr", "null") ELSE s
  IN IF t.created = "empty"
       THEN PrCatch(s1, p, [statusCode |-> 0, error |-> "TypeError"])
       ELSE ReturnResult(
              [s1 EXCEPT !.task[p].toolResult =
                  [success |-> TRUE, what |-> "pr",
                   auto_review |-> Sub(v, t.review),
                   auto_test |-> Sub(v, t.test),
                   auto_merge |-> Sub(v, t.merge),
                   statusCode |-> 0]], p)

(* a review, test or merge step ended in its catch block *)
StepCaught(s, p, step, msg) ==
  LET s1 == [s EXCEPT !.task[p] = SetStep(@, step, "null")]
  IN IF s.variant = "final" THEN LogRequest(s1, p, LogName(step), msg)
     ELSE s1

(* variant of ShouldMerge: the outcome of the test step is not consulted *)
ShouldMergeIgnoresTest(flags, test) == TRUE

(* const shouldMerge = (!AUTO_TEST || testResult !== null) *)
ShouldMerge(flags, test) == ~flags.AUTO_TEST \/ Resolved(test)

Try(s, p, step) == [s EXCEPT !.task[p].tried = Append(@, step)]

BeginMerge(s, p) ==
  LET t == s.task[p]
      f == s.config[t.key]
  IN IF f.AUTO_MERGE /\ HasNumber(t.created) /\ ShouldMerge(f, t.test)
       THEN IF NumberTypeOk(s.variant, t.created)
              THEN GetAccessToken(Try(s, p, "merge"), p, t.key, "merge")
              ELSE PrReturn(StepCaught(Try(s, p, "merge"), p, "merge",
                                       "Missing or invalid PR number"), p)
       ELSE PrReturn(s, p)

BeginTest(s, p) ==
  LET t == s.task[p]
      f == s.config[t.key]
  IN IF f.AUTO_TEST /\ HasNumber(t.created)
       THEN IF NumberTypeOk(s.variant, t.created)
              THEN GetAccessToken(Try(s, p, "test"), p, t.key, "test")
              ELSE BeginMerge(StepCaught(Try(s, p, "test"), p, "test",
                                         "Missing or invalid PR number"), p)
       ELSE BeginMerge(s, p)

BeginReview(s, p) ==
  LET t == s.task[p]
      f == s.config[t.key]
  IN IF f.AUTO_REVIEW /\ HasNumber(t.created)
       THEN IF NumberTypeOk(s.variant, t.created)
              THEN GetAccessToken(Try(s, p, "review"), p, t.key, "review")
              ELSE BeginTest(StepCaught(Try(s, p, "review"), p, "review",
                                        "Missing or invalid PR number"), p)
       ELSE BeginTest(s, p)

(* variant of Continue: the test step is placed before the review step *)
ContinueTestFirst(s, p, step) ==
  IF step = "create" THEN BeginTest(s, p)
  ELSE IF step = "test" THEN BeginReview(s, p)
  ELSE PrReturn(s, p)

(* the step after "step" in the code's order *)
Continue(s, p, step) ==
  IF step = "create" THEN BeginReview(s, p)
  ELSE IF step = "review" THEN BeginTest(s, p)
  ELSE IF step = "test" THEN BeginMerge(s, p)
  ELSE PrReturn(s, p)

(* variant of StepRejected: a failed review, test or merge ends the call *)
StepRejectedAborts(s, p, step, err) ==
  IF step = "token" THEN TokenFail(s, p, err)
  ELSE IF step = "create" THEN PrCatch(s, p, err)
  ELSE PrReturn(StepCaught(s, p, step, err.error), p)

(* the awaited request of a step rejected: token exchange or REST call *)
StepRejected(s, p, step, err) ==
  IF step = "token" THEN TokenFail(s, p, err)
  ELSE IF step = "create" THEN PrCatch(s, p, err)
  ELSE Continue(StepCaught(s, p, step, err.error), p, step)

(* the REST call of a step resolved with a 2xx response *)
StepResolved(s, p, step, out) ==
  LET val == IF step = "create" THEN out
             ELSE IF out = "empty" THEN "nodata" ELSE "data"
      s1 == [s EXCEPT !.task[p] = SetStep(@, step, val)]
      s2 == IF s.variant = "final"
              THEN LogRequest(s1, p, LogName(step), "null") ELSE s1
  IN Continue(s2, p, step)

(* variant of Pr: the title is not looked at before the create request *)
PrNoTitleCheck(s, p) ==
  GetAccessToken(
    Try([s EXCEPT !.task[p].body = RequestBody(s.env["a"])], p, "create"),
    p, "a", "create")

(* pr up to its first suspension *)
Pr(s, p) ==
  LET t == s.task[p]
      v == s.variant
      badTitle == t.req.title \in {"missing", "number", "blank"}
  IN IF v = "multi"
       THEN IF badTitle
              THEN ReturnError(s, p, "Missing or invalid title parameter", "-")
            ELSE IF t.key \notin RepoKeys
              THEN ReturnError(s, p, "Repository not found", "undefined")
            ELSE GetAccessToken(
                   Try([s EXCEPT !.task[p].body = RequestBody(s.env[t.key]),
                                 !.task[p].display =
                                    FormatBranchName(s.env[t.key].HEAD_RAW)],
                       p, "create"),
                   p, t.key, "create")
       ELSE IF badTitle
              THEN PrCatch(Try(s, p, "create"), p,
                     [statusCode |-> 0,
                      error |-> "Missing or invalid title parameter"])
            ELSE GetAccessToken(
                   Try([s EXCEPT !.task[p].body = RequestBody(s.env[t.key])],
                       p, "create"),
                   p, t.key, "create")

(* Array.prototype.slice(start, end) for 0 <= start <= end *)
Slice(seq, start, end) ==
  SubSeq(seq, start + 1, IF end < Len(seq) THEN end ELSE Len(seq))

(* ToIntegerOrInfinity of a number >= 0 given as its double *)
ToInteger(twice) == twice \div 2

(* logs tool: it returns or throws without suspension *)
Logs(s, p) ==
  LET r == s.task[p].req
      limit == IF r.limit = Absent THEN Num(DefaultLimit) ELSE r.limit
      offset == IF r.offset = Absent THEN Num(MinOffset) ELSE r.offset
  IN IF \/ limit.kind # "number"
        \/ limit.twice < 2 * MinLimit
        \/ limit.twice > 2 * MaxLimit
       THEN ReturnError(s, p, "Invalid limit parameter", "-")
     ELSE IF offset.kind # "number" \/ offset.twice < 2 * MinOffset
       THEN ReturnError(s, p, "Invalid offset parameter", "-")
     ELSE ReturnResult(
            [s EXCEPT !.task[p].toolResult =
               [NoTool EXCEPT
                  !.success = TRUE,
                  !.what = "logs",
                  !.total = Len(s.operationLogs),
                  !.logs = Slice(s.operationLogs, ToInteger(offset.twice),
                                 ToInteger(offset.twice + limit.twice))]],
            p)

(* set_log_dir tool: log_dir is missing, names a directory that cannot be  *)
(* created, or a usable one; LOG_DIR of the environment keeps precedence   *)
SetLogDir(s, p) ==
  LET a == s.task[p].req.args
  IN IF a \notin {"dir", "baddir"}
       THEN ReturnError(s, p, "log_dir parameter must be a non-empty string",
                        "-")
     ELSE IF a = "baddir" THEN ReturnError(s, p, "mkdir failed", "-")
     ELSE ReturnResult(
            [s EXCEPT !.logDir = IF @ \in {"unset", "custom_ok"}
                                   THEN "custom_ok" ELSE @,
                      !.task[p].toolResult =
                         [NoTool EXCEPT !.success = TRUE,
                                        !.what = "set_log_dir"]], p)

(* token tool up to its first suspension *)
Token(s, p) ==
  LET t == s.task[p]
  IN IF s.variant = "multi" /\ t.key \notin RepoKeys
       THEN ReturnError(s, p, "Repository not found", "undefined")
       ELSE GetAccessToken(s, p, t.key, "token")

(* ---------------------- token endpoint responses ----------------------- *)
(* variant of CacheEntry: no default for a missing expires_in *)
CacheEntryNoDefault(tok, tcall, lifetime) ==
  [present |-> TRUE, token |-> tok, expiresAt |-> tcall + lifetime]

(* the cache entry written for a 2xx response to a call made at tcall *)
CacheEntry(tok, tcall, lifetime) ==
  [present |-> TRUE, token |-> tok,
   expiresAt |-> tcall + (IF lifetime = 0 THEN DefaultLifetime ELSE lifetime)]

Received(s, p, o, tok) ==
  [s EXCEPT !.task[p].oauth =
     [kind |-> o.kind, token |-> tok, lifetime |-> o.lifetime,
      statusCode |-> o.statusCode]]

(* variant of OAuthResolved: one cache entry shared by all instances *)
OAuthResolvedSharedCache(s, p, o) ==
  LET t == s.task[p]
      tok == IF o.hasToken THEN [k |-> t.key, n |-> t.xid] ELSE NoToken
      s1 == [Received(s, p, o, tok) EXCEPT
               !.tokenCache = [k \in RepoKeys |->
                                 CacheEntry(tok, t.tcall, o.lifetime)]]
  IN IF t.step = "token" THEN TokenOk(s1, p, tok)
     ELSE SendHttp(s1, p, t.step, tok)

(* 2xx: cache the token, resolve, and go on with the step that asked *)
OAuthResolved(s, p, o) ==
  LET t == s.task[p]
      tok == IF o.hasToken THEN [k |-> t.key, n |-> t.xid] ELSE NoToken
      s1 == [Received(s, p, o, tok) EXCEPT
               !.tokenCache[t.key] = CacheEntry(tok, t.tcall, o.lifetime)]
  IN IF t.step = "token" THEN TokenOk(s1, p, tok)
     ELSE SendHttp(s1, p, t.step, tok)

(* variant of OAuthRejected: a failed exchange drops the cached entry *)
OAuthRejectedDropsEntry(s, p, o) ==
  StepRejected([Received(s, p, o, NoToken) EXCEPT
                  !.tokenCache[s.task[p].key] = NoEntry],
               p, s.task[p].step,
               [statusCode |-> o.statusCode, error |-> o.kind])

(* non-2xx, unparsable body or network error: reject, nothing is cached *)
OAuthRejected(s, p, o) ==
  StepRejected(Received(s, p, o, NoToken), p, s.task[p].step,
               [statusCode |-> o.statusCode, error |-> o.kind])

(* ----------------------------- dispatcher ------------------------------ *)
(* the tool name as submitted *)
FullName(r) ==
  IF r.prefix = "none" THEN r.name ELSE r.prefix \o "_" \o r.name

(* variant of ActualMethodName: the prefix is never stripped *)
ActualMethodNameKeepsPrefix(r) == FullName(r)

(* name.startsWith(prefix + '_') ? name.substring(prefix.length + 1) : name *)
ActualMethodName(r) == IF r.prefix = "own" THEN r.name ELSE FullName(r)

(* the tool descriptors tools/list returns (the multi-instance server      *)
(* throws while it builds them)                                            *)
ListedTools(v) ==
  IF v = "final"
    THEN [prefix : {"own"}, name : {"pr", "token", "logs"}]
    ELSE {}

(* members of the server object a tool name can resolve to *)
(* the tool methods of the class *)
KnownTool(v, name) ==
  name \in {"pr", "token", "logs"} \/ (v = "multi" /\ name = "set_log_dir")

(* the other functions this[name] can be: handleRequest, the inherited     *)
(* toString and, in the multi-instance server, formatBranchName            *)
OtherMethod(v, name) ==
  name \in {"handleRequest", "toString"}
    \/ (v = "multi" /\ name = "formatBranchName")

(* the truthy data properties of the server object *)
DataMember(s, name) ==
  name \in {"name", "version"} \/ (s.initialized /\ name = "initialized")

(* this[actualMethodName] is truthy *)
Member(s, name) ==
  KnownTool(s.variant, name) \/ OtherMethod(s.variant, name)
    \/ DataMember(s, name)

(* this.handleRequest(args) called as a tool: the inner call handles args  *)
(* as a request, logs it and returns its response envelope                 *)
InnerRequest(s, p) ==
  IF s.task[p].req.args = "shutdown"
    THEN LogRequest([s EXCEPT !.exitTimer = TRUE], p, "shutdown", "null")
    ELSE LogRequest(s, p, "null", "Unsupported JSON-RPC version")

PlaceholderMethods == {"prompts/list", "prompts/call", "resources/list",
                       "resources/read", "logging/list", "logging/read",
                       "roots/list", "roots/read"}

(* tools/call branch of handleRequest up to its first suspension *)
ToolsCall(s, p) ==
  LET r == s.task[p].req
      v == s.variant
      actual == ActualMethodName(r)
      k == IF v = "final" THEN "a"
           ELSE IF r.repo \in RepoKeys THEN r.repo ELSE "-"
      s1 == [s EXCEPT !.task[p].key = k, !.task[p].tool = actual]
  IN IF r.name = "none" THEN ReturnError(s, p, "Missing tool name", "-")
     ELSE IF ~Member(s, actual)
       THEN ReturnError(s, p, "Unknown tool", FullName(r))
     ELSE IF v = "multi" /\ r.repo \notin ({"none", "", "-"} \cup RepoKeys)
       THEN ReturnError(s, p, "Repository not found", r.repo)
     ELSE IF actual = "pr" THEN Pr(s1, p)
     ELSE IF actual = "token" THEN Token(s1, p)
     ELSE IF actual = "logs" THEN Logs(s1, p)
     ELSE IF actual = "set_log_dir" THEN SetLogDir(s1, p)
     ELSE IF DataMember(s, actual)
       THEN ReturnError(s, p, "this[actualMethodName] is not a function",
                        "-")
     ELSE IF actual = "handleRequest"
       THEN ReturnResult([InnerRequest(s1, p) EXCEPT !.task[p].toolResult =
                            [NoTool EXCEPT !.success = TRUE,
                                           !.what = actual]], p)
     ELSE ReturnResult([s1 EXCEPT !.task[p].toolResult =
                            [NoTool EXCEPT !.success = TRUE,
                                           !.what = actual]], p)

(* handleRequest up to its first suspension *)
Dispatch(s, p) ==
  LET r == s.task[p].req
      m == r.method
  IN IF r.shape = "notObject"
       THEN ReturnError(s, p, "Invalid request: request must be an object",
                        "-")
     ELSE IF r.shape = "badVersion"
       THEN ReturnError(s, p, "Unsupported JSON-RPC version", "-")
     ELSE IF r.shape = "noMethod"
       THEN ReturnError(s, p, "Invalid request: method is required", "-")
     ELSE IF m = "initialize"
       THEN ReturnResult([s EXCEPT !.initialized = TRUE], p)
     ELSE IF m = "tools/list"
       THEN IF s.variant = "multi"
              THEN ReturnError(s, p, "PROJECT_NAME is not defined", "-")
              ELSE ReturnResult(
                     [s EXCEPT !.task[p].listed = ListedTools(s.variant),
                               !.task[p].display =
                                  FormatBranchName(s.env["a"].HEAD_RAW)], p)
     ELSE IF m \in PlaceholderMethods THEN ReturnResult(s, p)
     ELSE IF m = "tools/call" THEN ToolsCall(s, p)
     ELSE IF m = "ping"
       THEN ReturnResult(LogRequest(s, p, "ping", "null"), p)
     ELSE IF m = "shutdown"
       THEN ReturnResult([s EXCEPT !.exitTimer = TRUE], p)
     ELSE IF m = "notifications/initialized"
       THEN ReturnResult(
              LogRequest(s, p, "notifications/initialized", "null"), p)
     ELSE IF m = "notifications/exit"
       THEN [s EXCEPT !.alive = FALSE, !.task[p].pc = "done"]
     ELSE ReturnError(s, p, "Unknown method", m)

(* stdin handler: JSON.parse of the line threw.  The single-instance       *)
(* server's catch block reads the out-of-scope "request", the resulting    *)
(* ReferenceError ends the loop in the outer catch, which logs it; the     *)
(* multi-instance server emits an error envelope with id null and goes on  *)
ParseFailed(s, p) ==
  IF s.variant = "final"
    THEN [LogRequest(s, p, "data_processing_error", "request is not defined")
            EXCEPT !.task[p].pc = "done", !.task[p].lines = <<>>]
    ELSE [s EXCEPT !.task[p].pc = "done",
                   !.task[p].resp = [kind |-> "error", code |-> 0 - 32603,
                                     id |-> "null", arg |-> "-"]]

(* stdin handler: one line of the chunk, up to the first suspension *)
Line(s, p) ==
  IF s.task[p].req.shape = "notJson" THEN ParseFailed(s, p)
  ELSE Dispatch(s, p)

(* ------------------------------ actions -------------------------------- *)
Init ==
  /\ variant \in Variants
  /\ \E f \in Flags : config = [k \in RepoKeys |-> f]
  /\ env = [k \in RepoKeys |-> DefaultEnv]
  /\ now = 0
  /\ tokenCache = [k \in RepoKeys |-> NoEntry]
  /\ operationLogs = <<>>
  /\ task = [p \in Tasks |-> IdleTask]
  /\ exchanges = [k \in RepoKeys |-> 0]
  /\ handled = 0
  /\ alive = TRUE
  /\ exitTimer = FALSE
  /\ initialized = FALSE
  /\ logDir = "env_ok"
  /\ sup = NoSup

(* a record arrives and handleRequest runs until it suspends or returns;   *)
(* max bounds the number of records of a run                               *)
HandleRequest(p, r, max) ==
  /\ alive
  /\ task[p].pc \in {"idle", "done"}
  /\ \A q \in Tasks : q < p => task[q].pc \notin {"idle", "done"}
  /\ handled < max
  /\ handled' = handled + 1
  /\ Commit(Dispatch([Cur EXCEPT !.task[p] =
                         [IdleTask EXCEPT !.req = r, !.rid = handled + 1]], p))
  /\ UNCHANGED now

(* a chunk of records arrives: the 'data' callback splits it into lines    *)
(* and handles the first one                                               *)
Data(p, chunk, max) ==
  /\ alive
  /\ task[p].pc \in {"idle", "done"}
  /\ task[p].lines = <<>>
  /\ handled < max
  /\ handled' = handled + 1
  /\ Commit(Line([Cur EXCEPT !.task[p] =
                     [IdleTask EXCEPT !.req = Head(chunk),
                                      !.rid = handled + 1,
                                      !.lines = Tail(chunk),
                                      !.count = Len(chunk),
                                      !.idx = 1]], p))
  /\ UNCHANGED now

(* variant of NextLine: the loop does not wait for handleRequest *)
NextLineNoAwait(p) ==
  /\ alive
  /\ task[p].pc # "idle"
  /\ task[p].lines # <<>>
  /\ handled' = handled + 1
  /\ Commit(Line([Cur EXCEPT !.task[p] =
                     [IdleTask EXCEPT !.req = Head(task[p].lines),
                                      !.rid = handled + 1,
                                      !.lines = Tail(task[p].lines),
                                      !.count = task[p].count,
                                      !.idx = task[p].idx + 1]], p))
  /\ UNCHANGED now

(* the for loop of the 'data' callback goes on to the next line once the   *)
(* awaited handleRequest has returned and the response was written         *)
NextLine(p) ==
  /\ alive
  /\ task[p].pc = "done"
  /\ task[p].lines # <<>>
  /\ handled' = handled + 1
  /\ Commit(Line([Cur EXCEPT !.task[p] =
                     [IdleTask EXCEPT !.req = Head(task[p].lines),
                                      !.rid = handled + 1,
                                      !.lines = Tail(task[p].lines),
                                      !.count = task[p].count,
                                      !.idx = task[p].idx + 1]], p))
  /\ UNCHANGED now

(* the response of the token endpoint arrives *)
OAuthResponse(p, o) ==
  /\ alive
  /\ task[p].pc = "oauthWait"
  /\ Commit(IF o.kind = "ok" THEN OAuthResolved(Cur, p, o)
            ELSE OAuthRejected(Cur, p, o))
  /\ UNCHANGED <<now, handled>>

(* the response of a REST endpoint arrives *)
HttpResponse(p, out) ==
  /\ alive
  /\ task[p].pc = "httpWait"
  /\ out \in (IF task[p].step = "create" THEN CreateOutcomes ELSE StepOutcomes)
  /\ Commit(IF out = "fail"
              THEN StepRejected(Cur, p, task[p].step,
                     [statusCode |-> 400, error |-> "upstream"])
              ELSE StepResolved(Cur, p, task[p].step, out))
  /\ UNCHANGED <<now, handled>>

(* the clock advances by one minute *)
Tick ==
  /\ alive
  /\ now < MaxNow
  /\ now' = now + 1
  /\ UNCHANGED <<variant, config, env, tokenCache, operationLogs, task,
                 exchanges, handled, alive, exitTimer, initialized, logDir,
                 sup>>

(* variant of ExitTimer: the timer set by shutdown never fires *)
ExitTimerNeverFires ==
  /\ alive
  /\ exitTimer
  /\ ~alive
  /\ alive' = FALSE
  /\ UNCHANGED <<variant, config, env, now, tokenCache, operationLogs, task,
                 exchanges, handled, exitTimer, initialized, logDir, sup>>

(* the timer set by shutdown fires: process.exit(0) *)
ExitTimer ==
  /\ alive
  /\ exitTimer
  /\ alive' = FALSE
  /\ UNCHANGED <<variant, config, env, now, tokenCache, operationLogs, task,
                 exchanges, handled, exitTimer, initialized, logDir, sup>>

Next ==
  \/ \E p \in Tasks, r \in Requests : HandleRequest(p, r, MaxRecords)
  \/ \E p \in Tasks, o \in OAuthOutcomes : OAuthResponse(p, o)
  \/ \E p \in Tasks, out \in CreateOutcomes \cup StepOutcomes : HttpResponse(p, out)
  \/ Tick
  \/ ExitTimer

Spec == Init /\ [][Next]_vars

(* token calls only, from concurrent tasks *)
NoFlags == [AUTO_REVIEW |-> FALSE, AUTO_TEST |-> FALSE, AUTO_MERGE |-> FALSE]

InitToken == Init /\ config = [k \in RepoKeys |-> NoFlags]

NextToken ==
  \/ \E p \in Tasks, r \in ConcurrentTokenRequests :
        HandleRequest(p, r, MaxTokenCalls)
  \/ \E p \in Tasks, o \in OAuthOutcomes : OAuthResponse(p, o)
  \/ Tick

SpecToken == InitToken /\ [][NextToken]_vars

(* pr invocations, one at a time *)
NextPr ==
  \/ \E r \in PrRequests : HandleRequest(1, r, MaxRecords)
  \/ \E o \in SeqOAuthOutcomes : OAuthResponse(1, o)
  \/ \E out \in CreateOutcomes \cup StepOutcomes : HttpResponse(1, out)
  \/ Tick

SpecPr == Init /\ [][NextPr]_vars

(* every kind of record, one at a time *)
NextDispatch ==
  \/ \E r \in Requests : HandleRequest(1, r, MaxRecords)
  \/ \E o \in SeqOAuthOutcomes : OAuthResponse(1, o)
  \/ \E out \in CreateOutcomes \cup StepOutcomes : HttpResponse(1, out)
  \/ Tick
  \/ ExitTimer

SpecDispatch == Init /\ [][NextDispatch]_vars

(* records that need no upstream call, handled by a server whose log is    *)
(* already (nearly) full: n earlier requests were logged, alternately      *)
(* initialize and prompts/list                                             *)
FilledLog(n) ==
  [i \in 1..n |-> [method |-> IF i % 2 = 0 THEN "initialize"
                                          ELSE "prompts/list",
                   error |-> "null", written |-> TRUE]]

LogRecords ==
  {r \in SimpleRequests :
     r.hasId /\ r.method \in {"initialize", "prompts/list", "ping",
                               "shutdown", "bogus/method"}}

InitLog ==
  /\ variant \in Variants
  /\ \E f \in Flags : config = [k \in RepoKeys |-> f]
  /\ env = [k \in RepoKeys |-> DefaultEnv]
  /\ now = 0
  /\ tokenCache = [k \in RepoKeys |-> NoEntry]
  /\ \E n \in (MAX_LOGS - LogSlack)..MAX_LOGS : operationLogs = FilledLog(n)
  /\ task = [p \in Tasks |-> IdleTask]
  /\ exchanges = [k \in RepoKeys |-> 0]
  /\ handled = 0
  /\ alive = TRUE
  /\ exitTimer = FALSE
  /\ initialized = FALSE
  /\ logDir = "env_ok"
  /\ sup = NoSup

NextLog ==
  \/ \E r \in LogRecords : HandleRequest(1, r, MaxLogRecords)
  \/ ExitTimer

SpecLog == InitLog /\ [][NextLog]_vars

(* logs calls after some earlier requests, the log being short or full *)
InitLogs ==
  /\ variant \in Variants
  /\ config = [k \in RepoKeys |-> NoFlags]
  /\ env = [k \in RepoKeys |-> DefaultEnv]
  /\ now = 0
  /\ tokenCache = [k \in RepoKeys |-> NoEntry]
  /\ \E n \in (0..(MaxWindow + 1)) \cup {DefaultLimit + 1, MAX_LOGS} :
        operationLogs = FilledLog(n)
  /\ task = [p \in Tasks |-> IdleTask]
  /\ exchanges = [k \in RepoKeys |-> 0]
  /\ handled = 0
  /\ alive = TRUE
  /\ exitTimer = FALSE
  /\ initialized = FALSE
  /\ logDir = "env_ok"
  /\ sup = NoSup

NextLogs ==
  \/ \E r \in {x \in LogRecords : x.method \in {"ping", "bogus/method"}} :
        HandleRequest(1, r, MaxLogRecords)
  \/ \E r \in LogsRequests : HandleRequest(1, r, MaxLogRecords)

SpecLogs == InitLogs /\ [][NextLogs]_vars

(* tool calls by the name of any member of the server object, before and   *)
(* after initialize                                                        *)
MemberRecords ==
  MemberToolRequests
  \cup {r \in SimpleRequests : r.method = "initialize" /\ r.hasId}

NextMembers ==
  \/ \E r \in MemberRecords : HandleRequest(1, r, MaxLogRecords)
  \/ ExitTimer

SpecMembers == InitToken /\ [][NextMembers]_vars

(* token and pr calls for the two instances in flight together *)
InstanceRecords ==
  ConcurrentTokenRequests
  \cup {r \in PrRequests : r.repo = "a" /\ r.title = "ok"}
  \cup {[r EXCEPT !.repo = "b"] : r \in {x \in PrRequests :
                                           x.repo = "a" /\ x.title = "ok"}}

NextInstances ==
  \/ \E p \in Tasks, r \in InstanceRecords :
        HandleRequest(p, r, MaxTokenCalls)
  \/ \E p \in Tasks, o \in SeqOAuthOutcomes : OAuthResponse(p, o)
  \/ \E p \in Tasks, out \in {"fail", "num"} : HttpResponse(p, out)

SpecInstances == InitToken /\ [][NextInstances]_vars

(* records without upstream calls and set_log_dir calls, the log file       *)
(* being writable or not                                                   *)
SetLogDirRequests ==
  [shape : {"ok"}, method : {"tools/call"}, hasId : {TRUE},
   name : {"set_log_dir"}, repo : {"none"}, title : {"-"},
   prefix : {"none"}, limit : {Absent}, offset : {Absent},
   args : {"empty", "dir", "baddir"}]

InitLogFile ==
  /\ variant \in Variants
  /\ config = [k \in RepoKeys |-> NoFlags]
  /\ env = [k \in RepoKeys |-> DefaultEnv]
  /\ now = 0
  /\ tokenCache = [k \in RepoKeys |-> NoEntry]
  /\ operationLogs = <<>>
  /\ task = [p \in Tasks |-> IdleTask]
  /\ exchanges = [k \in RepoKeys |-> 0]
  /\ handled = 0
  /\ alive = TRUE
  /\ exitTimer = FALSE
  /\ initialized = FALSE
  /\ logDir \in LogDirs(variant)
  /\ sup = NoSup

NextLogFile ==
  \/ \E r \in LogRecords \cup SetLogDirRequests :
        HandleRequest(1, r, MaxLogRecords)
  \/ ExitTimer

SpecLogFile == InitLogFile /\ [][NextLogFile]_vars

(* ------------------ managed starter and CLI wrapper -------------------- *)
(* A child is a server process: "running"; "failed" when it could not be   *)
(* spawned and "errored" once its 'error' event was delivered; "signalled" *)
(* after SIGINT or SIGTERM was sent to it, "killed" after SIGKILL;         *)
(* "exited" with its code: "0", "1", "null" when a signal ended it, "neg"  *)
(* after a failed spawn.                                                   *)
Child(status) == [status |-> status, code |-> "none"]

(* process.exit(code) of the starter *)
SupExit(u, code) == [u EXCEPT !.alive = FALSE, !.exitCode = code]

(* server.kill(signal): a child that is gone is left alone *)
Kill(u, signal) ==
  LET n == Len(u.children)
  IN IF u.children[n].status \in {"running", "signalled"}
          /\ (signal = "SIGKILL" \/ u.children[n].status = "running")
       THEN [u EXCEPT !.children[n].status =
               IF signal = "SIGKILL" THEN "killed" ELSE "signalled"]
       ELSE u

(* startServer(): server = spawn(...) *)
StartServer(u, status) == [u EXCEPT !.children = Append(@, Child(status))]

(* the codes a child in a given status can end with: a running server      *)
(* exits with 0 (shutdown, notifications/exit) or 1 (uncaught exception,   *)
(* missing configuration); a signalled one with 0 from its signal handler  *)
(* or, the handlers not yet registered, by the signal                      *)
ExitCodes(status) ==
  IF status = "running" THEN {"0", "1"}
  ELSE IF status = "signalled" THEN {"0", "null"}
  ELSE IF status = "killed" THEN {"null"}
  ELSE IF status = "errored" THEN {"neg"}
  ELSE {}

(* server.on('close') of the managed starter *)
ManagedClose(u, code) ==
  IF code # "0" /\ u.restartCount < maxRestarts
    THEN [u EXCEPT !.restartCount = @ + 1, !.restartTimers = @ + 1]
  ELSE IF code # "0" THEN SupExit(u, "1")
  ELSE SupExit(u, "0")

(* server.on('close') of the CLI wrapper *)
CliClose(u, code) ==
  LET u1 == [u EXCEPT !.shutdownTimeouts =
                         IF u.latestArmed THEN @ - 1 ELSE @,
                      !.latestArmed = FALSE]
  IN IF code = "0" THEN [u1 EXCEPT !.restartTimers = @ + 1]
     ELSE [u1 EXCEPT !.exitTimer = code]

(* server.on('error') *)
OnError(u) ==
  IF u.kind = "cli" THEN SupExit(u, "1")
  ELSE IF u.restartCount < maxRestarts
    THEN [u EXCEPT !.restartCount = @ + 1, !.restartTimers = @ + 1]
  ELSE SupExit(u, "1")

(* The listeners are put on the child process object that server refers to *)
(* when the module is loaded, the first one.                               *)
Watched(i) == i = 1

(* child i ends: 'close' is emitted *)
ChildExit(i, code) ==
  /\ sup.alive
  /\ i \in 1..Len(sup.children)
  /\ code \in ExitCodes(sup.children[i].status)
  /\ LET u == [sup EXCEPT !.children[i] = [status |-> "exited",
                                             code |-> code]]
     IN sup' = IF ~Watched(i) THEN u
               ELSE IF sup.kind = "managed" THEN ManagedClose(u, code)
               ELSE CliClose(u, code)
  /\ UNCHANGED serverVars

(* child i could not be spawned: 'error' is emitted; without a listener    *)
(* it is an uncaught exception, whose handler kills the server and exits   *)
SpawnError(i) ==
  /\ sup.alive
  /\ i \in 1..Len(sup.children)
  /\ sup.children[i].status = "failed"
  /\ LET u == [sup EXCEPT !.children[i].status = "errored"]
     IN sup' = IF Watched(i) THEN OnError(u)
               ELSE SupExit(Kill(u, "SIGTERM"), "1")
  /\ UNCHANGED serverVars

(* SIGINT or SIGTERM arrives: gracefulShutdown *)
Signal(signal) ==
  /\ sup.alive
  /\ sup.signals < MaxSignals
  /\ sup' = Kill([sup EXCEPT !.signals = @ + 1,
                             !.shutdownTimeouts = @ + 1,
                             !.latestArmed = TRUE], signal)
  /\ UNCHANGED serverVars

(* the 10 s timer of gracefulShutdown fires *)
ShutdownTimeout ==
  /\ sup.alive
  /\ sup.shutdownTimeouts > 0
  /\ sup' = SupExit(Kill(sup, "SIGKILL"), "1")
  /\ UNCHANGED serverVars

(* the 2 s timer set by a close or error listener fires: startServer() *)
RestartTimer(status) ==
  /\ sup.alive
  /\ sup.restartTimers > 0
  /\ status \in {"running", "failed"}
  /\ sup' = StartServer([sup EXCEPT !.restartTimers = @ - 1], status)
  /\ UNCHANGED serverVars

(* the 1 s timer of the CLI wrapper fires: process.exit(code), where a     *)
(* null code leaves the exit code 0                                        *)
CliExitTimer ==
  /\ sup.alive
  /\ sup.exitTimer # "none"
  /\ sup' = SupExit(sup, IF sup.exitTimer = "null" THEN "0"
                         ELSE sup.exitTimer)
  /\ UNCHANGED serverVars

(* no child is left and no timer is pending: the event loop is empty and   *)
(* the process ends with code 0                                            *)
Drained ==
  /\ sup.alive
  /\ sup.restartTimers = 0 /\ sup.shutdownTimeouts = 0
  /\ sup.exitTimer = "none"
  /\ \A i \in 1..Len(sup.children) : sup.children[i].status = "exited"
  /\ sup' = SupExit(sup, "0")
  /\ UNCHANGED serverVars

InitSup ==
  /\ variant = "final"
  /\ config = [k \in RepoKeys |-> NoFlags]
  /\ env = [k \in RepoKeys |-> DefaultEnv]
  /\ now = 0
  /\ tokenCache = [k \in RepoKeys |-> NoEntry]
  /\ operationLogs = <<>>
  /\ task = [p \in Tasks |-> IdleTask]
  /\ exchanges = [k \in RepoKeys |-> 0]
  /\ handled = 0
  /\ alive = TRUE
  /\ exitTimer = FALSE
  /\ initialized = FALSE
  /\ logDir = "env_ok"
  /\ \E kind \in {"managed", "cli"}, status \in {"running", "failed"} :
        sup = StartServer([NoSup EXCEPT !.kind = kind, !.alive = TRUE],
                          status)

NextSup ==
  \/ \E i \in 1..Len(sup.children), code \in {"0", "1", "null", "neg"} :
        ChildExit(i, code)
  \/ \E i \in 1..Len(sup.children) : SpawnError(i)
  \/ \E signal \in {"SIGINT", "SIGTERM"} : Signal(signal)
  \/ ShutdownTimeout
  \/ \E status \in {"running", "failed"} : RestartTimer(status)
  \/ CliExitTimer
  \/ Drained

(* timers that are set do fire, and a child that was sent a signal or      *)
(* failed to start does end                                                *)
FairSup ==
  /\ WF_vars(ShutdownTimeout)
  /\ WF_vars(\E status \in {"running", "failed"} : RestartTimer(status))
  /\ WF_vars(CliExitTimer)
  /\ WF_vars(Drained)
  /\ WF_vars(\E i \in 1..Len(sup.children) : SpawnError(i))
  /\ WF_vars(\E i \in 1..Len(sup.children), code \in {"0", "null", "neg"} :
               /\ sup.children[i].status # "running"
               /\ ChildExit(i, code))

SpecSup == InitSup /\ [][NextSup]_vars /\ FairSup

(* chunks of several records, one chunk at a time *)
NotJson == [NoReq EXCEPT !.shape = "notJson"]

ChunkRecords ==
  {r \in TokenRequests : r.repo = "a"}
  \cup {r \in SimpleRequests :
          \/ r.method = "ping" /\ r.hasId
          \/ r.method = "notifications/initialized" /\ ~r.hasId}
  \cup {NotJson}

RECURSIVE SeqsUpTo(_, _)
SeqsUpTo(S, n) ==
  IF n = 0 THEN {<<>>}
  ELSE LET shorter == SeqsUpTo(S, n - 1)
       IN shorter \cup {Append(q, x) : q \in shorter, x \in S}

Chunks == SeqsUpTo(ChunkRecords, MaxChunk) \ {<<>>}

NextChunk ==
  \/ \E c \in Chunks : Data(1, c, MaxChunkRecords)
  \/ NextLine(1)
  \/ \E o \in SeqOAuthOutcomes : OAuthResponse(1, o)

SpecChunk == InitToken /\ [][NextChunk]_vars

(* tools/list and tool calls by prefixed name, one at a time *)
ToolRecords ==
  PrefixedToolRequests
  \cup {r \in SimpleRequests : r.method = "tools/list" /\ r.hasId}

NextTools ==
  \/ \E r \in ToolRecords : HandleRequest(1, r, MaxRecords)
  \/ \E o \in SeqOAuthOutcomes : OAuthResponse(1, o)
  \/ \E out \in CreateOutcomes \cup StepOutcomes : HttpResponse(1, out)

SpecTools == Init /\ [][NextTools]_vars

(* records without upstream calls; a timer that was set does fire *)
SpecShutdown == Init /\ [][NextLog]_vars /\ WF_vars(ExitTimer)

(* pr calls and tools/list under every configured branch name, reviewer    *)
(* list, tester list and label list of bounded length                      *)
BranchChars == {"branch", "d", " ", "(", ")"}
BranchNames == SeqsUpTo(BranchChars, MaxLen) \ {<<>>}

NameChars == {"u", " ", ","}
NameStrings == SeqsUpTo(NameChars, MaxLen)

RECURSIVE Repeat(_, _)
Repeat(c, n) == IF n = 0 THEN <<>> ELSE <<c>> \o Repeat(c, n - 1)

(* labels at both length limits, with and without refused characters *)
LabelPieces ==
  {Repeat("a", MinLabelLength - 1), Repeat("a", MinLabelLength),
   Repeat("Z", MaxLabelLength), Repeat("9", MaxLabelLength + 1),
   <<"_", "cjk">>, <<"a", "-">>, <<" ", "a", "9", " ">>, <<"a", " ", "a">>,
   <<" ">>, <<>>}

RECURSIVE Join(_)
Join(pieces) ==
  IF pieces = <<>> THEN <<>>
  ELSE IF Len(pieces) = 1 THEN pieces[1]
  ELSE pieces[1] \o <<",">> \o Join(Tail(pieces))

LabelStrings == {Join(q) : q \in SeqsUpTo(LabelPieces, MaxLabels)}

(* the single-instance server refuses to start with a blank head *)
CreateEnvs(v) ==
  {[DefaultEnv EXCEPT !.HEAD_RAW = b] :
     b \in {x \in BranchNames : v = "multi" \/ Trim(x) # <<>>}}
  \cup {[DefaultEnv EXCEPT !.ASSIGNEES = l] : l \in NameStrings}
  \cup {[DefaultEnv EXCEPT !.TESTERS = l] : l \in NameStrings}
  \cup {[DefaultEnv EXCEPT !.LABELS_ENV = l] : l \in LabelStrings}

CreateRecords ==
  {r \in PrRequests : r.repo = "a" /\ r.title = "ok"}
  \cup {r \in SimpleRequests : r.method = "tools/list" /\ r.hasId}

InitCreate ==
  /\ variant \in Variants
  /\ config = [k \in RepoKeys |-> NoFlags]
  /\ \E e \in CreateEnvs(variant) : env = [k \in RepoKeys |-> e]
  /\ now = 0
  /\ tokenCache = [k \in RepoKeys |-> NoEntry]
  /\ operationLogs = <<>>
  /\ task = [p \in Tasks |-> IdleTask]
  /\ exchanges = [k \in RepoKeys |-> 0]
  /\ handled = 0
  /\ alive = TRUE
  /\ exitTimer = FALSE
  /\ initialized = FALSE
  /\ logDir = "env_ok"
  /\ sup = NoSup

NextCreate ==
  \/ \E r \in CreateRecords : HandleRequest(1, r, MaxRecords)
  \/ \E o \in {x \in SeqOAuthOutcomes : x.kind = "ok" => x.lifetime = 7} :
        OAuthResponse(1, o)
  \/ \E out \in {"fail", "num"} : HttpResponse(1, out)

SpecCreate == InitCreate /\ [][NextCreate]_vars

(* =========================== token cache =============================== *)
(* the step of task p is the arrival of a token call for instance k *)
TokenCallStep(p, k) ==
  /\ handled' = handled + 1
  /\ task'[p].rid = handled'
  /\ task'[p].tool = "token"
  /\ task'[p].key = k

(* the step of task p is the arrival of the answer to its exchange *)
OAuthAnswerStep(p) ==
  /\ task[p].pc = "oauthWait"
  /\ task'[p].pc # "oauthWait"

InFlight(k) == {p \in Tasks : task[p].pc = "oauthWait" /\ task[p].key = k}

(* C1: token refresh is single-flight: at no time are two OAuth exchanges  *)
(* for the same instance in flight                                         *)
C1_SingleFlight == \A k \in RepoKeys : Cardinality(InFlight(k)) <= 1

C8_RefreshCaches ==
  [][\A p \in Tasks, k \in RepoKeys :
       /\ (/\ TokenCallStep(p, k)
           /\ (~tokenCache[k].present \/ tokenCache[k].expiresAt - now <= 5))
          => (/\ exchanges'[k] = exchanges[k] + 1
              /\ task'[p].pc = "oauthWait"
              /\ task'[p].tcall = now)
       /\ (/\ OAuthAnswerStep(p)
           /\ task[p].key = k
           /\ task'[p].oauth.kind = "ok")
          => (/\ tokenCache'[k] =
                   [present |-> TRUE, token |-> task'[p].oauth.token,
                    expiresAt |-> task[p].tcall +
                       (IF task'[p].oauth.lifetime = 0 THEN 60
                        ELSE task'[p].oauth.lifetime)]
              /\ task'[p].token = task'[p].oauth.token
              /\ (task'[p].oauth.token # NoToken
                    => task'[p].toolResult.success))]_vars

(* C8 witness: a call made at a later time got a token without lifetime    *)
C8_Witness ==
  \E p \in Tasks :
    /\ task[p].pc = "done" /\ task[p].tool = "token"
    /\ task[p].oauth.kind = "ok" /\ task[p].oauth.lifetime = 0
    /\ task[p].oauth.token # NoToken
    /\ task[p].tcall > 0
    /\ task[p].key \in RepoKeys
    /\ tokenCache[task[p].key].token = task[p].token
    /\ tokenCache[task[p].key].expiresAt = task[p].tcall + 60

(* C9: a failed exchange leaves the token cache as it was and the caller   *)
(* gets an error with the upstream status code and message                 *)
C9_FailureNotCached ==
  [][\A p \in Tasks :
       (/\ OAuthAnswerStep(p)
        /\ task'[p].oauth.kind # "ok")
       => (/\ tokenCache' = tokenCache
           /\ task'[p].err = [statusCode |-> task'[p].oauth.statusCode,
                              error |-> task'[p].oauth.kind]
           /\ task'[p].resp.kind = "error"
           /\ ~task'[p].toolResult.success)]_vars

(* C9 witness: an exchange failed while an older entry was cached *)
C9_Witness ==
  \E p \in Tasks :
    /\ task[p].pc = "done" /\ task[p].tool = "token"
    /\ task[p].oauth.kind = "unparsable"
    /\ task[p].err.statusCode = 200
    /\ task[p].resp.kind = "error"
    /\ task[p].key \in RepoKeys
    /\ tokenCache[task[p].key].present

(* ============================ pr workflow ============================== *)
InSeq(x, seq) == \E i \in 1..Len(seq) : seq[i] = x

Pos(x) == CHOOSE i \in 1..Len(StepOrder) : StepOrder[i] = x

(* task p has finished a pr invocation that got as far as the workflow *)
PrRan(p) ==
  /\ task[p].pc = "done"
  /\ task[p].tool = "pr"
  /\ task[p].req.title = "ok"
  /\ task[p].key \in RepoKeys

(* the merge gate as the claims state it *)
GateHolds(p) ==
  /\ config[task[p].key].AUTO_MERGE
  /\ task[p].created \in {"num", "strnum"}
  /\ (~config[task[p].key].AUTO_TEST \/ task[p].test \in {"data", "nodata"})

C3_FailsOnlyIfCreateFails ==
  \A p \in Tasks :
    (PrRan(p) /\ task[p].created \in (CreateOutcomes \ {"fail"}))
      => task[p].toolResult.success

(* C4: the REST requests of one pr invocation go out in the order create,  *)
(* review, test, merge, each at most once, and the one in flight is the    *)
(* last one issued                                                         *)
C4_StepOrder ==
  \A p \in Tasks :
    /\ \A i, j \in 1..Len(task[p].sent) :
         i < j => Pos(task[p].sent[i]) < Pos(task[p].sent[j])
    /\ task[p].pc = "httpWait"
         => /\ Len(task[p].sent) > 0
            /\ task[p].sent[Len(task[p].sent)] = task[p].step

(* C4 witness: all four requests were issued *)
C4_Witness ==
  \E p \in Tasks :
    PrRan(p) /\ task[p].sent = <<"create", "review", "test", "merge">>

(* C5: after a failed review the test step still runs when auto-test is    *)
(* set and the merge step still runs when auto-merge is set and the gate   *)
(* holds                                                                   *)
C5_ReviewFailureIsolated ==
  \A p \in Tasks :
    (PrRan(p) /\ InSeq("review", task[p].tried) /\ task[p].review = "null")
      => /\ config[task[p].key].AUTO_TEST => InSeq("test", task[p].tried)
         /\ GateHolds(p) => InSeq("merge", task[p].tried)

(* C5 witness: the review request failed, test and merge were sent *)
C5_Witness ==
  \E p \in Tasks :
    /\ PrRan(p)
    /\ InSeq("review", task[p].sent) /\ task[p].review = "null"
    /\ InSeq("test", task[p].sent)
    /\ InSeq("merge", task[p].sent)

(* C6: no review, test or merge request is sent unless the create step     *)
(* succeeded and returned a PR number                                      *)
C6_NoStepWithoutNumber ==
  \A p \in Tasks :
    (\E x \in {"review", "test", "merge"} : InSeq(x, task[p].sent))
      => task[p].created \in {"num", "strnum"}

(* C6 witness: every flag set, create answered 2xx without a PR number and *)
(* nothing else was sent                                                   *)
C6_Witness ==
  \E p \in Tasks :
    /\ PrRan(p)
    /\ config[task[p].key] = [AUTO_REVIEW |-> TRUE, AUTO_TEST |-> TRUE,
                              AUTO_MERGE |-> TRUE]
    /\ task[p].created = "nonum"
    /\ task[p].sent = <<"create">>

(* ============================= dispatcher ============================== *)
(* C10: every handled request or notification adds exactly one entry to    *)
(* the Operation Log                                                       *)
C10_LoggedExactlyOnce ==
  \A p \in Tasks : task[p].pc = "done" => task[p].logged = 1

(* the step is the handling of a record by task p *)
RecordStep(p) ==
  /\ handled' = handled + 1
  /\ task'[p].rid = handled'

(* C11: the Operation Log never holds more than 1000 entries; the entries  *)
(* a record appends are put in front, every older entry keeps its place    *)
(* behind them in the same order, and when the log is full exactly as many *)
(* entries are removed from the old end as were appended                   *)
C11_LogBounded ==
  /\ [](Len(operationLogs) <= 1000)
  /\ [][\A p \in Tasks :
          RecordStep(p) =>
            LET j == task'[p].logged
                n == Len(operationLogs)
                m == Len(operationLogs')
            IN /\ m = (IF n + j > 1000 THEN 1000 ELSE n + j)
               /\ \A i \in (j + 1)..m :
                    operationLogs'[i] = operationLogs[i - j]
               /\ \A i \in 1..j :
                    operationLogs'[i].method = task'[p].req.method]_vars

(* C11 witness: two records appended three entries to a log that had room *)
(* for two at most, so an append was made to a full log; the three are in  *)
(* front, newest first, and the log is at its capacity                     *)
C11_Witness ==
  /\ Len(operationLogs) = 1000
  /\ handled = 2
  /\ task[1].logged = 1
  /\ operationLogs[1].method = "bogus/method"
  /\ operationLogs[1].error = "Unknown method"
  /\ operationLogs[2].method = "ping"
  /\ operationLogs[3].method = "ping"
  /\ operationLogs[4].method \in {"initialize", "prompts/list"}

(* ============================ stdin handler ============================ *)
(* C12: a record of a chunk begins to be handled only when the record      *)
(* before it is finished, upstream calls and response included, and it is  *)
(* the next one in arrival order; nothing of the chunk is taken while a    *)
(* record waits on an upstream call                                        *)
C12_ChunkInOrder ==
  [][\A p \in Tasks :
       /\ task'[p].rid # task[p].rid
            => /\ task[p].pc \in {"idle", "done"}
               /\ task[p].lines # <<>>
                    => /\ task'[p].req = Head(task[p].lines)
                       /\ task'[p].lines \in {Tail(task[p].lines), <<>>}
                       /\ task'[p].idx = task[p].idx + 1
       /\ task[p].pc \in {"oauthWait", "httpWait"}
            => /\ task'[p].lines = task[p].lines
               /\ task'[p].req = task[p].req]_vars

(* C12 witness: the second record of a chunk was answered after the first  *)
(* one had waited for the token endpoint                                   *)
C12_Witness ==
  /\ task[1].idx = 2
  /\ task[1].rid = 2
  /\ task[1].pc = "done"
  /\ task[1].req.method = "ping"
  /\ task[1].resp.kind = "result"
  /\ exchanges["a"] = 1

(* C13: records of different chunks are either handled one after the      *)
(* other, or, whenever two tool calls are in flight together, no two token *)
(* exchanges for one instance are in flight and the Operation Log only     *)
(* grows by whole entries put in front                                     *)
C13_SerializedOrSingleFlight ==
  [][(\E p, q \in Tasks :
        /\ p # q
        /\ task'[p].pc \in {"oauthWait", "httpWait"}
        /\ task'[q].pc \in {"oauthWait", "httpWait"})
     => /\ \A p, q \in Tasks :
             (/\ p # q
              /\ task'[p].pc = "oauthWait"
              /\ task'[q].pc = "oauthWait")
             => task'[p].key # task'[q].key
        /\ \E j \in 0..Len(operationLogs') :
             /\ Len(operationLogs') = Len(operationLogs) + j
             /\ \A i \in 1..Len(operationLogs) :
                  operationLogs'[i + j] = operationLogs[i]]_vars

(* ======================= envelopes and error codes ===================== *)
(* task p has finished handling a well-formed record *)
Handled(p) == task[p].pc = "done" /\ task[p].req.shape = "ok"

(* C14: a well-formed envelope without id is a notification: no response   *)
(* envelope and no error envelope is produced for it, whatever its method  *)
C14_NoIdNoEnvelope ==
  \A p \in Tasks :
    (Handled(p) /\ ~task[p].req.hasId) => task[p].resp.kind = "none"

C16_MalformedIsInvalidRequest ==
  \A p \in Tasks :
    (/\ task[p].pc = "done"
     /\ task[p].req.shape \in {"notObject", "badVersion", "noMethod"})
      => /\ task[p].resp.kind = "error"
         /\ task[p].resp.code = 0 - 32600

(* C17: an error envelope carries the id of the request that caused it     *)
(* when the request has one, and null only when it has none                *)
C17_ErrorCarriesRequestId ==
  \A p \in Tasks :
    (task[p].pc = "done" /\ task[p].resp.kind = "error")
      => task[p].resp.id = (IF task[p].req.hasId THEN "id" ELSE "null")

(* C18: a well-formed request for a method the dispatcher does not handle  *)
(* is answered with an error envelope of code -32601                       *)
C18_UnknownMethodNotFound ==
  \A p \in Tasks :
    (/\ Handled(p)
     /\ task[p].req.hasId
     /\ task[p].req.method \in {"bogus/method", "Server not initialized"})
      => /\ task[p].resp.kind = "error"
         /\ task[p].resp.code = 0 - 32601

(* C19: a tools/call that names no known tool is answered with an error    *)
(* envelope of code -32601                                                 *)
C19_UnknownToolNotFound ==
  \A p \in Tasks :
    (/\ Handled(p)
     /\ task[p].req.hasId
     /\ task[p].req.method = "tools/call"
     /\ task[p].req.name \in {"bogus", "Unknown method"})
      => /\ task[p].resp.kind = "error"
         /\ task[p].resp.code = 0 - 32601

(* C20: in the multi-instance server a pr or token call whose repo         *)
(* argument is given and matches no instance key is answered with an error *)
(* envelope naming that key; nothing is sent upstream, the token cache is  *)
(* untouched and no instance is used in its place                          *)
C20_UnknownRepoNamed ==
  \A p \in Tasks :
    (/\ Handled(p)
     /\ variant = "multi"
     /\ task[p].req.name \in {"pr", "token"}
     /\ task[p].req.repo \notin (RepoKeys \cup {"none"}))
      => /\ task[p].resp.kind = "error"
         /\ task[p].resp.arg = task[p].req.repo
         /\ task[p].sent = <<>>
         /\ task[p].exch = 0
         /\ task[p].key \notin RepoKeys
         /\ tokenCache = [k \in RepoKeys |-> NoEntry]
         /\ exchanges = [k \in RepoKeys |-> 0]

(* ========================= pr: input and result ======================== *)
(* C21: a pr call whose title is missing, not a string or blank is         *)
(* answered at once with an error (the title message, unless the instance  *)
(* lookup of the multi-instance server failed first); no token is asked    *)
(* for and no request is sent                                              *)
C21_BadTitleNoUpstream ==
  \A p \in Tasks :
    (/\ task[p].req.name = "pr"
     /\ task[p].req.title \in {"missing", "number", "blank"})
      => /\ task[p].pc = "done"
         /\ task[p].sent = <<>>
         /\ task[p].exch = 0
         /\ task[p].hits = 0
         /\ ~task[p].toolResult.success
         /\ IF variant = "final"
              THEN /\ task[p].resp.kind = "result"
                   /\ task[p].err.error = "Missing or invalid title parameter"
              ELSE /\ task[p].resp.kind = "error"
                   /\ operationLogs[1].error \in
                        {"Missing or invalid title parameter",
                         "Repository not found"}
                   /\ task[p].req.repo \in RepoKeys
                        => operationLogs[1].error =
                             "Missing or invalid title parameter"

(* C21 witness: a title of blanks only was refused for a configured        *)
(* instance and nothing went upstream                                      *)
C21_Witness ==
  \E p \in Tasks :
    /\ task[p].pc = "done"
    /\ task[p].req.name = "pr"
    /\ task[p].req.title = "blank"
    /\ task[p].req.repo = "a"
    /\ operationLogs[1].error = "Missing or invalid title parameter"
    /\ exchanges = [k \in RepoKeys |-> 0]
    /\ task[p].sent = <<>>

(* C22: when the create step of a pr call fails (its token exchange or its *)
(* request), the tools/call is answered with a result envelope whose       *)
(* payload is a failure of the pr tool with success = false                *)
C22_CreateFailureIsResult ==
  \A p \in Tasks :
    (PrRan(p) /\ task[p].created = "-")
      => /\ task[p].resp.kind = "result"
         /\ task[p].resp.id = "id"
         /\ task[p].toolResult.what = "pr"
         /\ ~task[p].toolResult.success
         /\ task[p].err # NoErr
         /\ task[p].toolResult.statusCode = task[p].err.statusCode

(* C22 witness: the create request was sent and refused upstream *)
C22_Witness ==
  \E p \in Tasks :
    /\ PrRan(p)
    /\ task[p].sent = <<"create">>
    /\ task[p].created = "-"
    /\ task[p].err.statusCode = 400
    /\ task[p].resp.kind = "result"

(* the flag, the outcome and the reported sub-result of a step of task p *)
StepFlag(p, step) ==
  IF step = "review" THEN config[task[p].key].AUTO_REVIEW
  ELSE IF step = "test" THEN config[task[p].key].AUTO_TEST
  ELSE config[task[p].key].AUTO_MERGE

StepOutcome(p, step) ==
  IF step = "review" THEN task[p].review
  ELSE IF step = "test" THEN task[p].test
  ELSE task[p].merge

SubResult(p, step) ==
  IF step = "review" THEN task[p].toolResult.auto_review
  ELSE IF step = "test" THEN task[p].toolResult.auto_test
  ELSE task[p].toolResult.auto_merge

(* C23: in the result of a successful pr call the sub-result of review,    *)
(* test or merge is present only when the step was enabled and its request *)
(* was answered 2xx, with a null payload when the answer had no body; a    *)
(* step that was not run or that failed has no sub-result                  *)
C23_SubResultsOnlyOnSuccess ==
  \A p \in Tasks :
    (PrRan(p) /\ task[p].toolResult.success) =>
      \A step \in {"review", "test", "merge"} :
        /\ SubResult(p, step) # "absent"
             => /\ StepFlag(p, step)
                /\ InSeq(step, task[p].sent)
                /\ StepOutcome(p, step) \in {"data", "nodata"}
                /\ SubResult(p, step) = StepOutcome(p, step)
        /\ (~InSeq(step, task[p].tried) \/ StepOutcome(p, step) = "null")
             => SubResult(p, step) = "absent"

(* C23 witness: review answered without body, test failed, no merge *)
C23_Witness ==
  \E p \in Tasks :
    /\ PrRan(p)
    /\ task[p].toolResult.success
    /\ task[p].toolResult.auto_review = "nodata"
    /\ task[p].test = "null"
    /\ InSeq("test", task[p].sent)
    /\ task[p].toolResult.auto_test = "absent"
    /\ task[p].toolResult.auto_merge = "absent"

(* ============================ tool names =============================== *)
(* C24: a tools/call whose name is one that tools/list returns reaches the *)
(* handler of that tool, prefix stripped, and is not refused as an unknown *)
(* tool                                                                    *)
C24_ListedToolsDispatch ==
  \A p \in Tasks :
    (/\ task[p].req.method = "tools/call"
     /\ [prefix |-> task[p].req.prefix, name |-> task[p].req.name]
          \in ListedTools(variant))
      => /\ task[p].tool = task[p].req.name
         /\ task[p].resp.kind = "error"
              => task[p].resp.arg # FullName(task[p].req)
         /\ task[p].req.name = "logs"
              => /\ task[p].resp.kind = "result"
                 /\ task[p].toolResult.what = "logs"

(* C24 witness: the token tool was called by its listed, prefixed name and *)
(* returned a token                                                        *)
C24_Witness ==
  \E p \in Tasks :
    /\ task[p].pc = "done"
    /\ task[p].req.prefix = "own"
    /\ task[p].req.name = "token"
    /\ [prefix |-> "own", name |-> "token"] \in ListedTools(variant)
    /\ task[p].toolResult.what = "token"
    /\ task[p].toolResult.success

(* ======================= placeholders and shutdown ===================== *)
(* C25: a request for a method of the prompts/, resources/, logging/ or    *)
(* roots/ family is answered with a result envelope, never with an error   *)
(* envelope                                                                *)
C25_FamiliesGetResults ==
  \A p \in Tasks :
    (/\ Handled(p)
     /\ task[p].req.hasId
     /\ task[p].req.method \in
          {"prompts/list", "prompts/call", "prompts/get", "resources/list",
           "resources/read", "logging/list", "logging/read", "roots/list",
           "roots/read"})
      => task[p].resp.kind = "result"

(* C26: the step that handles a shutdown request emits the result envelope *)
(* with the id of the request and leaves the process running; the process  *)
(* exits only after that, and once a shutdown was acknowledged it does     *)
(* exit                                                                    *)
C26_ShutdownAckThenExit ==
  /\ [][(~exitTimer /\ exitTimer')
          => /\ alive'
             /\ \E p \in Tasks :
                  /\ task'[p].req.method = "shutdown"
                  /\ task'[p].pc = "done"
                  /\ task'[p].resp.kind = "result"
                  /\ task'[p].resp.id = "id"]_vars
  /\ [](\A p \in Tasks :
          (task[p].req.method = "shutdown" /\ task[p].pc = "done")
            => exitTimer /\ task[p].resp.kind = "result")
  /\ [](~alive => exitTimer)
  /\ (exitTimer ~> ~alive)

(* C26 witness: shutdown was acknowledged and the process has exited *)
C26_Witness ==
  \E p \in Tasks :
    /\ task[p].req.method = "shutdown"
    /\ task[p].resp.kind = "result"
    /\ task[p].resp.id = "id"
    /\ exitTimer
    /\ ~alive

(* ========================= create request body ========================= *)
(* C27: formatting a branch name twice gives the same as formatting it     *)
(* once, for every display form the server has computed from a configured  *)
(* non-empty head                                                          *)
C27_FormatIdempotent ==
  \A p \in Tasks :
    task[p].display # <<>>
      => FormatBranchName(task[p].display) = task[p].display

(* the create request of task p has gone upstream *)
CreateSent(p) == InSeq("create", task[p].sent)

(* the comma-separated pieces of a configured value, each one trimmed *)
TrimmedPieces(str) == [i \in 1..Len(Split(str)) |-> Trim(Split(str)[i])]

(* C28: the reviewer and tester fields of a create request hold the        *)
(* non-empty trimmed pieces of the configured value, and a field whose     *)
(* list is empty is left out of the request                                *)
C28_EmptyListsOmitted ==
  \A p \in Tasks :
    CreateSent(p) =>
      LET e == env[task[p].key]
          NonEmpty(x) == x # <<>>
          Field(f, str) ==
            LET names == SelectSeq(TrimmedPieces(str), NonEmpty)
            IN IF names = <<>> THEN ~f.sent
               ELSE f.sent /\ f.value = names
      IN /\ Field(task[p].body.assignees, e.ASSIGNEES)
         /\ Field(task[p].body.testers, e.TESTERS)

(* a label of 2 to 20 letters, digits, underscores or CJK ideographs *)
C29_Accepted(label) ==
  /\ Len(label) \in 2..20
  /\ \A i \in 1..Len(label) : label[i] \in {"a", "Z", "9", "_", "cjk"}

C31_Limit(r) ==
  IF r.limit = Absent THEN [kind |-> "number", twice |-> 100] ELSE r.limit
C31_Offset(r) ==
  IF r.offset = Absent THEN [kind |-> "number", twice |-> 0] ELSE r.offset

(* C31: a logs call whose limit is a number in [1, 1000] (50 when left     *)
(* out) and whose offset is a number >= 0 (0 when left out) returns at     *)
(* most limit entries, the ones from position offset (its whole part) on   *)
(* of the log as it was when the call arrived, and the number of entries   *)
(* of the log; new                                                         *)
(* entries are put in front of the older ones, so the order is newest      *)
(* first; any other limit or offset is answered with an error naming the   *)
(* parameter and no entries                                                *)
C31_LogsWindow ==
  [][/\ \A p \in Tasks :
          (/\ task'[p].rid # task[p].rid
           /\ task'[p].req.method = "tools/call"
           /\ task'[p].req.name = "logs")
            => LET limit == C31_Limit(task'[p].req)
                   offset == C31_Offset(task'[p].req)
                   out == task'[p].toolResult
                   first == offset.twice \div 2
               IN /\ task'[p].pc = "done"
                  /\ IF /\ limit.kind = "number" /\ limit.twice \in 2..2000
                        /\ offset.kind = "number" /\ offset.twice >= 0
                       THEN /\ task'[p].resp.kind = "result"
                            /\ out.total = Len(operationLogs)
                            /\ 2 * Len(out.logs) <= limit.twice
                            /\ \/ first + Len(out.logs) = Len(operationLogs)
                               \/ first >= Len(operationLogs)
                               \/ 2 * (Len(out.logs) + 1) > limit.twice
                            /\ \A i \in 1..Len(out.logs) :
                                 /\ first + i <= Len(operationLogs)
                                 /\ out.logs[i] = operationLogs[first + i]
                       ELSE /\ task'[p].resp.kind = "error"
                            /\ operationLogs'[1].error \in
                                 {"Invalid limit parameter",
                                  "Invalid offset parameter"}
                            /\ out.logs = <<>>
                            /\ out.total = 0
    /\ \E n \in 0..Len(operationLogs') :
          /\ Len(operationLogs') =
               (IF Len(operationLogs) + n < 1000
                  THEN Len(operationLogs) + n ELSE 1000)
          /\ \A i \in (n + 1)..Len(operationLogs') :
               operationLogs'[i] = operationLogs[i - n]]_vars

(* C32: a tools/call whose name, the prefix stripped, is not one of pr,     *)
(* token, logs and set_log_dir is answered with the error "Unknown tool"   *)
(* and executes nothing: no handler ran, nothing but the refusal was       *)
(* logged and no exit was scheduled                                        *)
C32_OnlyAdvertisedToolsRun ==
  \A p \in Tasks :
    (/\ task[p].pc = "done"
     /\ task[p].req.method = "tools/call"
     /\ task[p].req.name \notin {"none", "pr", "token", "logs", "set_log_dir"})
      => /\ task[p].resp.kind = "error"
         /\ operationLogs[1].error = "Unknown tool"
         /\ task[p].tool = "-"
         /\ task[p].logged = 1
         /\ ~exitTimer

(* ============================ token cache ============================== *)
(* C33: the expiry cached for an instance key never decreases, and the     *)
(* response of an exchange that started before the exchange whose token is *)
(* cached leaves the cached token and expiry as they are                   *)
C33_ExpiryMonotonic ==
  [][\A k \in RepoKeys :
       /\ tokenCache'[k].expiresAt >= tokenCache[k].expiresAt
       /\ \A p \in Tasks :
            (/\ task[p].pc = "oauthWait"
             /\ task'[p].pc # "oauthWait"
             /\ task[p].key = k
             /\ task[p].xid < tokenCache[k].token.n)
              => tokenCache'[k] = tokenCache[k]]_vars

(* C34: whenever getAccessToken answers from the cache, what it returns is *)
(* a token that an exchange for that key delivered, never the empty value  *)
(* a 2xx response without access_token left behind                         *)
C34_CacheHitsReturnTokens ==
  [][\A p \in Tasks :
       task'[p].hits > task[p].hits
         => /\ tokenCache[task'[p].key].token # NoToken
            /\ tokenCache[task'[p].key].token.k = task'[p].key
            /\ tokenCache[task'[p].key].token.n \in 1..exchanges[task'[p].key]]_vars

(* C35: a token that a call returns or sends upstream was obtained with    *)
(* the credentials of the call's own instance, whatever other calls are in *)
(* flight, and a cache entry changes only when the response of an exchange *)
(* for its own key arrives                                                 *)
C35_InstancesIsolated ==
  [][/\ \A p \in Tasks :
          task'[p].token # NoToken => task'[p].token.k = task'[p].key
     /\ \A k \in RepoKeys :
          /\ tokenCache'[k].token # NoToken => tokenCache'[k].token.k = k
          /\ tokenCache'[k] # tokenCache[k]
               => \E p \in Tasks : /\ task[p].pc = "oauthWait"
                                   /\ task'[p].pc # "oauthWait"
                                   /\ task[p].key = k]_vars

(* C35 witness: in the multi-instance server a create request for b went   *)
(* upstream with b's token while a's token, from an exchange of its own,   *)
(* was cached at the same time                                             *)
C35_Witness ==
  /\ variant = "multi"
  /\ tokenCache["a"].token = [k |-> "a", n |-> 1]
  /\ tokenCache["b"].token = [k |-> "b", n |-> 1]
  /\ \E p \in Tasks :
       /\ task[p].key = "b"
       /\ InSeq("create", task[p].sent)
       /\ task[p].token = tokenCache["b"].token

(* ============================ stdin chunks ============================= *)
(* C36: when a record of a chunk is not valid JSON, the records after it   *)
(* in the chunk are still to be handled: what is left of the chunk after   *)
(* the bad record has been dealt with is all that came after it            *)
C36_BadRecordDoesNotStopChunk ==
  [][\A p \in Tasks :
       (task'[p].rid # task[p].rid /\ task'[p].req.shape = "notJson")
         => /\ task'[p].pc = "done"
            /\ Len(task'[p].lines) = task'[p].count - task'[p].idx]_vars

(* ============================ initialization =========================== *)
(* C37: no response carries the error code -32002 (server not              *)
(* initialized) and no request fails with that reason, whether or not an   *)
(* initialize request has been handled before                              *)
C37_NeverNotInitialized ==
  /\ \A p \in Tasks : task[p].resp.code # 0 - 32002
  /\ \A i \in 1..Len(operationLogs) :
       operationLogs[i].error # "Server not initialized"

(* ============================== log file =============================== *)
(* C38: every entry a request appends is in the in-memory log afterwards,  *)
(* whether or not its line could be written to the log file, and the       *)
(* request gets the response it gets with a writable log file: a result    *)
(* for initialize, prompts/list, ping and shutdown, the error -32601 for   *)
(* an unknown method                                                       *)
C38_AppendSurvivesFileFailure ==
  [][\A p \in Tasks :
       task'[p].rid # task[p].rid
         => /\ task'[p].pc = "done"
            /\ task'[p].logged >= 1
            /\ Len(operationLogs') = Len(operationLogs) + task'[p].logged
            /\ \A i \in 1..Len(operationLogs) :
                 operationLogs'[i + task'[p].logged] = operationLogs[i]
            /\ operationLogs'[1].method = task'[p].req.method
            /\ task'[p].req.method \in {"initialize", "prompts/list", "ping",
                                        "shutdown"}
                 => task'[p].resp.kind = "result"
            /\ task'[p].req.method = "bogus/method"
                 => /\ task'[p].resp.kind = "error"
                    /\ task'[p].resp.code = 0 - 32601]_vars

(* C38 witness: with no log directory configured a ping was answered and   *)
(* its two entries are in the log, their lines unwritten                   *)
C38_Witness ==
  /\ logDir = "unset"
  /\ task[1].pc = "done"
  /\ task[1].req.method = "ping"
  /\ task[1].resp.kind = "result"
  /\ task[1].logged = 2
  /\ Len(operationLogs) >= 2
  /\ ~operationLogs[1].written
  /\ ~operationLogs[2].written


(* C39: in the managed starter every exit of a server with a code other    *)
(* than 0, of the first server or of a restarted one, is followed by a     *)
(* restart (counter incremented, restart timer set) while fewer than       *)
(* maxRestarts restarts were made, and by the starter's exit with code 1   *)
(* after that; the restart counter never exceeds maxRestarts.              *)
C39_EveryCrashRestarts ==
  /\ [](sup.restartCount <= maxRestarts)
  /\ [][\A i \in 1..Len(sup.children), code \in {"1", "null", "neg"} :
          (sup.kind = "managed" /\ ChildExit(i, code)) =>
            IF sup.restartCount < maxRestarts
              THEN /\ sup'.alive
                   /\ sup'.restartCount = sup.restartCount + 1
                   /\ sup'.restartTimers = sup.restartTimers + 1
              ELSE ~sup'.alive /\ sup'.exitCode = "1"]_vars

(* C40: once the CLI wrapper has received SIGINT or SIGTERM it starts no   *)
(* further server process, and it eventually exits.                        *)
C40_NoServerAfterSignal ==
  /\ [][(sup.kind = "cli" /\ sup.signals > 0) =>
          Len(sup'.children) = Len(sup.children)]_vars
  /\ ((sup.kind = "cli" /\ sup.signals > 0) ~> ~sup.alive)

====
